---- MODULE Spec2Model ----
(***************************************************************************)
(* Model of Webscraper.py: the static paginated feed (scrape_products),    *)
(* the growth-based infinite-scroll feed                                   *)
(* (scrape_testimonials_infinite_scroll), the control-based "Load More"    *)
(* feed (scrape_reviews_infinite_scroll) and the sequential driver main(). *)
(* The web server and the browser are the environment: every response,     *)
(* every measured height, every located control and every raised error is  *)
(* drawn nondeterministically at the step that observes it.                *)
(***************************************************************************)
EXTENDS Integers, Sequences, FiniteSets, TLC

\* ---------------------------------------------------------------- bounds
MaxPagesArg == 3      \* largest max_pages of a direct scrape_products call
MaxProducts == 3      \* most products the server's catalogue holds
MaxK        == 3      \* largest max_reviews of a direct call
MaxN        == 4      \* most reviews the feed can serve
MaxT        == 2      \* most testimonials the feed can serve
MaxHeight   == 2      \* largest document.body.scrollHeight reading
MaxScrolls  == 3      \* scroll actions explored in the uncapped while-loops
MaxClock    == 1      \* largest reading of the UTC clock

\* ------------------------------------------------------ program constants
MainMaxPages == 6     \* main(): scrape_products(max_pages=6)
NoneVal      == -1    \* Python None for max_reviews (the default argument)

Feeds        == {"products", "testimonials", "reviews"}
DynamicFeeds == {"testimonials", "reviews"}
Entries      == {"main"} \cup Feeds

VARIABLES
    entry,        \* what was invoked: main() or one scrape function directly
    pc,           \* position of the single flow of control
    feed,         \* the scrape function currently (or last) executing
    status,       \* per feed: "idle", "running", "returned", "failed"
    max_pages,    \* argument of scrape_products
    max_reviews,  \* argument of scrape_reviews_infinite_scroll
    page,         \* scrape_products: loop variable
    products,     \* scrape_products: local list
    blocks,       \* scrape_products: product_blocks of the page just parsed
    fetchLog,     \* history: one entry per requests.get, in order
    ret,          \* per feed: value handed back to the caller, if any
    csv,          \* per feed: rows written by main(), if any
    created,      \* number of webdriver.Chrome() sessions created so far
    live,         \* ids of the browser sessions that are still open
    sessionOf,    \* per feed: id of the session its call created (0: none)
    quitCalls,    \* per feed: number of driver.quit() calls of its call
    exc,          \* an exception is propagating through the try block
    total,        \* reviews the feed is able to serve
    doc,          \* container nodes of the browser's current document
    height,       \* the browser's current document.body.scrollHeight
    last_height,  \* testimonials: local
    new_height,   \* testimonials: local
    firstEqual,   \* history: the first before/after pair of readings was equal
    scrolls,      \* history: scrollTo actions of the current call
    clicks,       \* history: click() calls of the current call
    findResult,   \* history: outcome of this cycle's find_element
    displayed,    \* history: outcome of this cycle's is_displayed()
    clickState,   \* history: outcome of the last click()
    preClickCount,\* history: nodes present when the last click was issued
    clickCycle,   \* history: cycle (scroll count) of the last click
    faults,       \* history: driver errors raised in the current call
    cycleOfFault, \* history: loop cycle in which the first error was raised
    snapshots,    \* history: driver.page_source reads of the current call
    soup,         \* the parsed snapshot
    soupAt,       \* history: [scrolls, clicks] when the snapshot was read
    records,      \* testimonials / reviews: local result list
    cancelRequested,  \* history: an external cancellation was requested in this call
    dateShift,  \* which reviews of the served page carry which kind of date text
    now,  \* the UTC clock as last read by datetime.utcnow()
    hrefShift,  \* which product blocks of the served pages carry which kind of href
    grew,  \* history: cycles of this call whose after-height exceeded the before-height
    monotone,  \* the page's height never decreases during this call
    settled,  \* the settle wait that follows the last click has elapsed
    buttonCycle   \* cycle in which load_more_button was bound (0: unbound)

vars == << entry, pc, feed, status, max_pages, max_reviews, page, products,
           blocks, fetchLog, ret, csv, created, live, sessionOf, quitCalls,
           exc, total, doc, height, last_height, new_height, firstEqual,
           scrolls, clicks, findResult, displayed, clickState, preClickCount, clickCycle,
           faults, cycleOfFault, snapshots, soup, soupAt, records, cancelRequested, dateShift, now, hrefShift, grew, monotone, settled, buttonCycle >>

prodVars == << page, products, blocks, fetchLog >>
sessVars == << created, live, sessionOf, quitCalls >>
dynVars  == << exc, total, doc, height, last_height, new_height, firstEqual,
               scrolls, clicks, findResult, displayed, clickState,
               preClickCount, clickCycle, faults, cycleOfFault, snapshots, soup, soupAt,
               records >>
callVars == << entry, feed, max_pages, max_reviews >>

\* ---------------------------------------------------------------- helpers
Min(a, b) == IF a < b THEN a ELSE b

\* Variant: only None switches the ceiling off (max_reviews is not None).
Truthy_ZeroIsCeiling(m) == m # NoneVal

\* Python truthiness of max_reviews: None and 0 are both falsy.
Truthy(m) == m # NoneVal /\ m # 0

\* Python None where a string is expected (a missing element or attribute).
NoText == "<None>"

\* The page content, the clock and the cancellation request are varied when
\* one scrape function is called directly; main() is explored against one
\* fixed content pattern and a clock that stands still.
Rich == entry # "main"

\* Readings datetime.utcnow() can return at the next extraction pass.
ClockReadings == IF Rich THEN now..MaxClock ELSE {now}

\* A value slot of the caller: nothing yet, or a sequence.
Nothing   == [has |-> FALSE, val |-> << >>]
Just(s)   == [has |-> TRUE,  val |-> s]

\* Where control goes when function f returns normally.
Continuation(f) ==
    IF entry = "main"
    THEN CASE f = "products"     -> "main_232"
           [] f = "testimonials" -> "main_235"
           [] f = "reviews"      -> "main_238"
    ELSE "done"

FirstLabel(f) ==
    CASE f = "products"     -> "p_enter"
      [] f = "testimonials" -> "t_chrome"
      [] f = "reviews"      -> "r_chrome"

\* ------------------------------------------------------------------- Init
Init ==
    /\ entry \in Entries
    /\ feed = IF entry = "main" THEN "products" ELSE entry
    /\ pc = IF entry = "main" THEN "main_231" ELSE FirstLabel(entry)
    /\ status = [f \in Feeds |->
                    IF entry # "main" /\ f = entry THEN "running" ELSE "idle"]
    /\ max_pages \in IF entry = "main" THEN {MainMaxPages}
                     ELSE IF entry = "products" THEN 0..MaxPagesArg
                     ELSE {MainMaxPages}
    /\ max_reviews \in IF entry = "reviews" THEN {NoneVal} \cup (0..MaxK)
                       ELSE {NoneVal}
    /\ page = 0
    /\ products = << >>
    /\ blocks = << >>
    /\ fetchLog = << >>
    /\ ret = [f \in Feeds |-> Nothing]
    /\ csv = [f \in Feeds |-> Nothing]
    /\ created = 0
    /\ live = {}
    /\ sessionOf = [f \in Feeds |-> 0]
    /\ quitCalls = [f \in Feeds |-> 0]
    /\ exc = FALSE
    /\ total = 0
    /\ doc = << >>
    /\ height = 0
    /\ last_height = 0
    /\ new_height = 0
    /\ firstEqual = FALSE
    /\ scrolls = 0
    /\ clicks = 0
    /\ findResult = "none"
    /\ displayed = "none"
    /\ clickState = "none"
    /\ preClickCount = 0
    /\ clickCycle = 0
    /\ faults = 0
    /\ cycleOfFault = 0
    /\ snapshots = 0
    /\ soup = << >>
    /\ soupAt = << 0, 0 >>
    /\ records = << >>
    /\ cancelRequested = FALSE
    /\ dateShift = 0
    /\ now = 0
    /\ hrefShift = 0
    /\ grew = 0
    /\ monotone = FALSE
    /\ settled = TRUE
    /\ buttonCycle = 0

\* ------------------------------------------------ exception propagation
\* An exception leaves the function: no value reaches the caller, and since
\* main() has no handler it leaves main() too.
Propagate ==
    /\ pc = "raise"
    /\ status' = [status EXCEPT ![feed] = "failed"]
    /\ pc' = "failed"
    /\ UNCHANGED << buttonCycle, settled, monotone, grew, hrefShift, now, dateShift, cancelRequested, callVars, prodVars, ret, csv, sessVars, dynVars >>

\* ------------------------------------------------------- scrape_products
\* The page served for ?page=p with n product blocks, in document order.
PageDoc(p, n) == [i \in 1..n |-> [pg |-> p, idx |-> i]]

\* A URL or href is the sequence of its parts; the empty sequence stands for
\* a missing <a> or href attribute (None) and for the empty string, which the
\* code treats alike.
BASE_URL == << "https://", "web-scraping.dev" >>

\* The hrefs a served page may carry: root-relative, absolute, path-relative,
\* missing.
HrefKinds == << << "/", "p/42" >>,
                << "https://", "other.test", "/", "p/1" >>,
                << "p/42" >>,
                << >> >>
HrefOf(b) == HrefKinds[((b.pg + b.idx + hrefShift) % 4) + 1]

\* Lines 53-54: if product_url and product_url.startswith("/"): prefix it
MakeAbsolute(u) ==
    IF u # << >> /\ Head(u) = "/" THEN BASE_URL \o u ELSE u

\* Lines 46-66: one record per block, in block order, tagged with the page
\* and with the clock reading t.
ExtractProducts(bs, p, t) ==
    [i \in 1..Len(bs) |-> [name              |-> bs[i],
                           url               |-> MakeAbsolute(HrefOf(bs[i])),
                           short_description |-> << "description", bs[i] >>,
                           page              |-> p,
                           scraped_at        |-> t]]

P_Enter ==
    /\ pc = "p_enter"
    /\ hrefShift' \in IF Rich THEN 0..3 ELSE {0}
    /\ products' = << >>
    /\ page' = 0
    /\ blocks' = << >>
    /\ pc' = "p_for"
    /\ UNCHANGED << buttonCycle, settled, monotone, grew, now, dateShift, cancelRequested, callVars, status, fetchLog, ret, csv, sessVars, dynVars >>

\* Variant: the page loop has no upper limit (while True).
P_For_NoCap ==
    /\ pc = "p_for"
    /\ page' = page + 1
    /\ pc' = "p_get"
    /\ UNCHANGED << buttonCycle, settled, monotone, grew, hrefShift, now, dateShift, cancelRequested, callVars, status, products, blocks, fetchLog, ret, csv,
                    sessVars, dynVars >>

\* for page in range(1, max_pages + 1)
P_For ==
    /\ pc = "p_for"
    /\ IF page < max_pages
       THEN page' = page + 1 /\ pc' = "p_get"
       ELSE page' = page /\ pc' = "p_return"
    /\ UNCHANGED << buttonCycle, settled, monotone, grew, hrefShift, now, dateShift, cancelRequested, callVars, status, products, blocks, fetchLog, ret, csv,
                    sessVars, dynVars >>

\* requests.get + raise_for_status + parse + select: the page arrives whole,
\* with any number of the products the catalogue has not served yet
P_GetOk ==
    /\ pc = "p_get"
    /\ \E n \in 0..(MaxProducts - Len(products)) :
          /\ blocks' = PageDoc(page, n)
          /\ fetchLog' = Append(fetchLog, [page |-> page, ok |-> TRUE, n |-> n])
    /\ pc' = "p_blocks"
    /\ UNCHANGED << buttonCycle, settled, monotone, grew, hrefShift, now, dateShift, cancelRequested, callVars, status, page, products, ret, csv, sessVars,
                    dynVars >>

\* requests.get raises (transport) or raise_for_status raises (non-2xx)
P_GetFail ==
    /\ pc = "p_get"
    /\ fetchLog' = Append(fetchLog, [page |-> page, ok |-> FALSE, n |-> 0])
    /\ pc' = "raise"
    /\ UNCHANGED << buttonCycle, settled, monotone, grew, hrefShift, now, dateShift, cancelRequested, callVars, status, page, products, blocks, ret, csv,
                    sessVars, dynVars >>

\* Variant: an empty page is skipped instead of ending the pagination.
P_Blocks_NoBreak ==
    /\ pc = "p_blocks"
    /\ pc' = "p_for"
    /\ \E t \in ClockReadings :
          /\ now' = t
          /\ products' = products \o ExtractProducts(blocks, page, t)
    /\ UNCHANGED << buttonCycle, settled, monotone, grew, hrefShift, dateShift, cancelRequested, callVars, status, page, blocks, fetchLog, ret, csv,
                    sessVars, dynVars >>

\* if not product_blocks: break   /   for block in product_blocks: append
P_Blocks ==
    /\ pc = "p_blocks"
    /\ IF Len(blocks) = 0
       THEN /\ pc' = "p_return"
            /\ products' = products
            /\ now' = now
       ELSE /\ pc' = "p_for"
            /\ \E t \in ClockReadings :
                  /\ now' = t
                  /\ products' = products \o ExtractProducts(blocks, page, t)
    /\ UNCHANGED << buttonCycle, settled, monotone, grew, hrefShift, dateShift, cancelRequested, callVars, status, page, blocks, fetchLog, ret, csv,
                    sessVars, dynVars >>

P_Return ==
    /\ pc = "p_return"
    /\ ret' = [ret EXCEPT !["products"] = Just(products)]
    /\ status' = [status EXCEPT !["products"] = "returned"]
    /\ pc' = Continuation("products")
    /\ UNCHANGED << buttonCycle, settled, monotone, grew, hrefShift, now, dateShift, cancelRequested, callVars, prodVars, csv, sessVars, dynVars >>

\* ------------------------------------------------------------------ main
\* A call statement of main(): control enters function f.
MainCall(label, f) ==
    /\ pc = label
    /\ feed' = f
    /\ status' = [status EXCEPT ![f] = "running"]
    /\ pc' = FirstLabel(f)
    /\ UNCHANGED << buttonCycle, settled, monotone, grew, hrefShift, now, dateShift, cancelRequested, entry, max_pages, max_reviews, prodVars, ret, csv,
                    sessVars, dynVars >>

\* pd.DataFrame(x).to_csv(...)
MainCsv(label, f, next) ==
    /\ pc = label
    /\ csv' = [csv EXCEPT ![f] = ret[f]]
    /\ pc' = next
    /\ UNCHANGED << buttonCycle, settled, monotone, grew, hrefShift, now, dateShift, cancelRequested, callVars, status, prodVars, ret, sessVars, dynVars >>

Main ==
    \/ MainCall("main_231", "products")
    \/ MainCsv("main_232", "products", "main_234")
    \/ MainCall("main_234", "testimonials")
    \/ MainCsv("main_235", "testimonials", "main_237")
    \/ MainCall("main_237", "reviews")
    \/ MainCsv("main_238", "reviews", "done")

\* ------------------------------------------------------ browser session
\* driver = webdriver.Chrome(): a fresh session; the call's history restarts.
NewSession(f, label, next) ==
    /\ pc = label
    /\ created' = created + 1
    /\ live' = live \cup {created + 1}
    /\ sessionOf' = [sessionOf EXCEPT ![f] = created + 1]
    /\ quitCalls' = [quitCalls EXCEPT ![f] = 0]
    /\ exc' = FALSE
    /\ total' = 0
    /\ doc' = << >>
    /\ height' = 0
    /\ last_height' = 0
    /\ new_height' = 0
    /\ firstEqual' = FALSE
    /\ scrolls' = 0
    /\ clicks' = 0
    /\ findResult' = "none"
    /\ displayed' = "none"
    /\ clickState' = "none"
    /\ preClickCount' = 0
    /\ clickCycle' = 0
    /\ faults' = 0
    /\ cycleOfFault' = 0
    /\ snapshots' = 0
    /\ soup' = << >>
    /\ soupAt' = << 0, 0 >>
    /\ records' = << >>
    /\ cancelRequested' = FALSE
    /\ dateShift' = 0
    /\ grew' = 0
    /\ monotone' = FALSE
    /\ settled' = TRUE
    /\ buttonCycle' = 0
    /\ pc' = next
    /\ UNCHANGED << hrefShift, now, callVars, status, prodVars, ret, csv >>

\* webdriver.Chrome() itself raises: there is no session and no try block yet.
NewSessionFail(f, label) ==
    /\ pc = label
    /\ pc' = "raise"
    /\ UNCHANGED << buttonCycle, settled, monotone, grew, hrefShift, now, dateShift, cancelRequested, callVars, status, prodVars, ret, csv, sessVars, dynVars >>

\* A driver step inside the outer try raises: control goes to the finally.
DriverRaise(label, quitLabel) ==
    /\ pc = label
    /\ exc' = TRUE
    /\ faults' = faults + 1
    /\ cycleOfFault' = IF faults = 0 THEN scrolls ELSE cycleOfFault
    /\ pc' = quitLabel
    /\ UNCHANGED << buttonCycle, settled, monotone, grew, hrefShift, now, dateShift, cancelRequested, callVars, status, prodVars, ret, csv, sessVars, total, doc,
                    height, last_height, new_height, firstEqual, scrolls,
                    clicks, findResult, displayed, clickState, preClickCount, clickCycle,
                    snapshots, soup, soupAt, records >>

\* Variant: quit() only at the end of the try body (no finally clause).
Quit_OnSuccessOnly(f, label, next) ==
    /\ pc = label
    /\ quitCalls' = [quitCalls EXCEPT ![f] = IF exc THEN @ ELSE @ + 1]
    /\ live' = IF exc THEN live ELSE live \ {sessionOf[f]}
    /\ pc' = IF exc THEN "raise" ELSE next
    /\ UNCHANGED << buttonCycle, settled, monotone, grew, hrefShift, now, dateShift, cancelRequested, callVars, status, prodVars, ret, csv, created, sessionOf,
                    dynVars >>

\* Variant: the finally closes the window only; the session stays open.
Quit_Leak(f, label, next) ==
    /\ pc = label
    /\ quitCalls' = [quitCalls EXCEPT ![f] = @ + 1]
    /\ \E quitRaises \in BOOLEAN :
          /\ exc' = (exc \/ quitRaises)
          /\ live' = live
          /\ faults' = IF quitRaises THEN faults + 1 ELSE faults
          /\ cycleOfFault' = IF quitRaises /\ faults = 0 THEN scrolls
                             ELSE cycleOfFault
    /\ pc' = IF exc' THEN "raise" ELSE next
    /\ UNCHANGED << buttonCycle, settled, monotone, grew, hrefShift, now, dateShift, cancelRequested, callVars, status, prodVars, ret, csv, created, sessionOf,
                    total, doc, height, last_height, new_height, firstEqual,
                    scrolls, clicks, findResult, displayed, clickState,
                    preClickCount, clickCycle, snapshots, soup, soupAt, records >>

\* finally: driver.quit()  -- reached from the try body's end and from every
\* exception raised inside it; quit() may itself raise.
Quit(f, label, next) ==
    /\ pc = label
    /\ quitCalls' = [quitCalls EXCEPT ![f] = @ + 1]
    /\ \E quitRaises \in BOOLEAN :
          /\ exc' = (exc \/ quitRaises)
          /\ live' \in IF quitRaises
                       THEN {live, live \ {sessionOf[f]}}
                       ELSE {live \ {sessionOf[f]}}
          /\ faults' = IF quitRaises THEN faults + 1 ELSE faults
          /\ cycleOfFault' = IF quitRaises /\ faults = 0 THEN scrolls
                             ELSE cycleOfFault
    /\ pc' = IF exc' THEN "raise" ELSE next
    /\ UNCHANGED << buttonCycle, settled, monotone, grew, hrefShift, now, dateShift, cancelRequested, callVars, status, prodVars, ret, csv, created, sessionOf,
                    total, doc, height, last_height, new_height, firstEqual,
                    scrolls, clicks, findResult, displayed, clickState,
                    preClickCount, clickCycle, snapshots, soup, soupAt, records >>

\* return <list>
Return(f, label, value) ==
    /\ pc = label
    /\ ret' = [ret EXCEPT ![f] = Just(value)]
    /\ status' = [status EXCEPT ![f] = "returned"]
    /\ pc' = Continuation(f)
    /\ UNCHANGED << buttonCycle, settled, monotone, grew, hrefShift, now, dateShift, cancelRequested, callVars, prodVars, csv, sessVars, dynVars >>

\* Container nodes are numbered in document order; new content is appended.
Nodes(n) == [i \in 1..n |-> i]

\* ----------------------------------- scrape_testimonials_infinite_scroll
\* Lines 113-131: one record per div.testimonial, in document order.
ExtractTestimonials(bs, t) ==
    [i \in 1..Len(bs) |-> [username   |-> << "user", bs[i] >>,
                           rating     |-> bs[i] % 6,
                           text       |-> << "testimonial text", bs[i] >>,
                           scraped_at |-> t]]

T_Chrome     == NewSession("testimonials", "t_chrome", "t_get")
T_ChromeFail == NewSessionFail("testimonials", "t_chrome")

\* driver.get(url); time.sleep(2)
T_Get ==
    /\ pc = "t_get"
    /\ \E n0 \in 0..MaxT, h \in 0..MaxHeight :
          /\ doc' = Nodes(n0)
          /\ height' = h
    /\ monotone' \in BOOLEAN
    /\ pc' = "t_height0"
    /\ UNCHANGED << buttonCycle, settled, grew, hrefShift, now, dateShift, cancelRequested, callVars, status, prodVars, ret, csv, sessVars, exc, total,
                    last_height, new_height, firstEqual, scrolls, clicks,
                    findResult, displayed, clickState, preClickCount, clickCycle, faults,
                    cycleOfFault, snapshots, soup, soupAt, records >>

\* last_height = driver.execute_script("return document.body.scrollHeight")
T_Height0 ==
    /\ pc = "t_height0"
    /\ last_height' = height
    /\ pc' = "t_scroll"
    /\ UNCHANGED << buttonCycle, settled, monotone, grew, hrefShift, now, dateShift, cancelRequested, callVars, status, prodVars, ret, csv, sessVars, exc, total,
                    doc, height, new_height, firstEqual, scrolls, clicks,
                    findResult, displayed, clickState, preClickCount, clickCycle, faults,
                    cycleOfFault, snapshots, soup, soupAt, records >>

\* window.scrollTo(0, scrollHeight); time.sleep(2): the page may load more
\* content and report any height afterwards.
\* The loop has no iteration cap; the model explores MaxScrolls scrolls of a
\* page whose height moves freely and, on a page whose height never
\* decreases, as many scrolls as MaxHeight growths and one more can take.
ScrollCap == IF monotone THEN MaxHeight + 1 ELSE MaxScrolls

T_Scroll ==
    /\ pc = "t_scroll"
    /\ scrolls < ScrollCap
    /\ scrolls' = scrolls + 1
    /\ \E b \in 0..(MaxT - Len(doc)), h \in 0..MaxHeight :
          /\ monotone => h >= height
          /\ doc' = Nodes(Len(doc) + b)
          /\ height' = h
    /\ pc' = "t_height"
    /\ UNCHANGED << buttonCycle, settled, monotone, grew, hrefShift, now, dateShift, cancelRequested, callVars, status, prodVars, ret, csv, sessVars, exc, total,
                    last_height, new_height, firstEqual, clicks, findResult,
                    displayed, clickState, preClickCount, clickCycle, faults, cycleOfFault,
                    snapshots, soup, soupAt, records >>

\* Variant: a grace period, the loop ends only on the second equal reading.
T_Compare_Grace ==
    /\ pc = "t_height"
    /\ new_height' = height
    /\ firstEqual' = IF scrolls = 1 THEN (height = last_height) ELSE firstEqual
    /\ grew' = IF height > last_height THEN grew + 1 ELSE grew
    /\ IF height = last_height /\ scrolls >= 2
       THEN /\ pc' = "t_snapshot"
            /\ last_height' = last_height
       ELSE /\ pc' = "t_scroll"
            /\ last_height' = height
    /\ UNCHANGED << buttonCycle, settled, monotone, hrefShift, now, dateShift, cancelRequested, callVars, status, prodVars, ret, csv, sessVars, exc, total,
                    doc, height, scrolls, clicks, findResult, displayed,
                    clickState, preClickCount, clickCycle, faults,
                    cycleOfFault, snapshots, soup, soupAt, records >>

\* Variant: last_height is never updated; every reading is compared with the
\* first one.
T_Compare_KeepFirst ==
    /\ pc = "t_height"
    /\ new_height' = height
    /\ firstEqual' = IF scrolls = 1 THEN (height = last_height) ELSE firstEqual
    /\ grew' = IF height > last_height THEN grew + 1 ELSE grew
    /\ IF height = last_height
       THEN /\ pc' = "t_snapshot"
            /\ last_height' = last_height
       ELSE /\ pc' = "t_scroll"
            /\ last_height' = last_height
    /\ UNCHANGED << buttonCycle, settled, monotone, hrefShift, now, dateShift, cancelRequested, callVars, status, prodVars, ret, csv, sessVars, exc, total,
                    doc, height, scrolls, clicks, findResult, displayed,
                    clickState, preClickCount, clickCycle, faults, cycleOfFault, snapshots,
                    soup, soupAt, records >>

\* Variant: the loop is left only when the height shrank.
T_Compare_BreakOnShrink ==
    /\ pc = "t_height"
    /\ new_height' = height
    /\ firstEqual' = IF scrolls = 1 THEN (height = last_height) ELSE firstEqual
    /\ grew' = IF height > last_height THEN grew + 1 ELSE grew
    /\ IF height < last_height
       THEN /\ pc' = "t_snapshot"
            /\ last_height' = last_height
       ELSE /\ pc' = "t_scroll"
            /\ last_height' = height
    /\ UNCHANGED << buttonCycle, settled, monotone, hrefShift, now, dateShift, cancelRequested, callVars, status, prodVars, ret, csv, sessVars, exc, total,
                    doc, height, scrolls, clicks, findResult, displayed,
                    clickState, preClickCount, clickCycle, faults, cycleOfFault, snapshots,
                    soup, soupAt, records >>

\* new_height = ...; if new_height == last_height: break; last_height = new_height
T_Compare ==
    /\ pc = "t_height"
    /\ new_height' = height
    /\ firstEqual' = IF scrolls = 1 THEN (height = last_height) ELSE firstEqual
    /\ grew' = IF height > last_height THEN grew + 1 ELSE grew
    /\ IF height = last_height
       THEN /\ pc' = "t_snapshot"
            /\ last_height' = last_height
       ELSE /\ pc' = "t_scroll"
            /\ last_height' = height
    /\ UNCHANGED << buttonCycle, settled, monotone, hrefShift, now, dateShift, cancelRequested, callVars, status, prodVars, ret, csv, sessVars, exc, total,
                    doc, height, scrolls, clicks, findResult, displayed,
                    clickState, preClickCount, clickCycle, faults, cycleOfFault, snapshots,
                    soup, soupAt, records >>

\* soup = BeautifulSoup(driver.page_source); blocks = soup.select(...)
Snapshot(label, next) ==
    /\ pc = label
    /\ soup' = doc
    /\ soupAt' = << scrolls, clicks >>
    /\ snapshots' = snapshots + 1
    /\ pc' = next
    /\ UNCHANGED << buttonCycle, settled, monotone, grew, hrefShift, now, dateShift, cancelRequested, callVars, status, prodVars, ret, csv, sessVars, exc, total,
                    doc, height, last_height, new_height, firstEqual, scrolls,
                    clicks, findResult, displayed, clickState, preClickCount, clickCycle,
                    faults, cycleOfFault, records >>

T_Snapshot == Snapshot("t_snapshot", "t_extract")

\* for block in blocks: testimonials.append({...})
T_Extract ==
    /\ pc = "t_extract"
    /\ \E t \in ClockReadings :
          /\ now' = t
          /\ records' = records \o ExtractTestimonials(soup, t)
    /\ pc' = "t_quit"
    /\ UNCHANGED << buttonCycle, settled, monotone, grew, hrefShift, dateShift, cancelRequested, callVars, status, prodVars, ret, csv, sessVars, exc, total,
                    doc, height, last_height, new_height, firstEqual, scrolls,
                    clicks, findResult, displayed, clickState, preClickCount, clickCycle,
                    faults, cycleOfFault, snapshots, soup, soupAt >>

T_Raise ==
    \/ DriverRaise("t_get", "t_quit")
    \/ DriverRaise("t_height0", "t_quit")
    \/ DriverRaise("t_scroll", "t_quit")
    \/ DriverRaise("t_height", "t_quit")
    \/ DriverRaise("t_snapshot", "t_quit")

T_Quit   == Quit("testimonials", "t_quit", "t_return")
T_Return == Return("testimonials", "t_return", records)

\* --------------------------------------- scrape_reviews_infinite_scroll
\* What the served page holds in the div.review block numbered b: the text of
\* span[data-testid=review-date] (NoText: no such span), the number of svg
\* stars and the review text.
DateKinds == << "2023-05-01", "N/A", "", NoText >>
DateTextOf(b) == DateKinds[((b + dateShift) % 4) + 1]
StarsOf(b)    == b % 6
TextOf(b)     == << "review text", b >>

\* dateutil's parser.parse followed by isoformat(): a datetime for a date it
\* recognises, a ParserError for anything else.
dateutil_parse(t) ==
    IF t = "2023-05-01"
    THEN [raised |-> FALSE, value |-> "2023-05-01T00:00:00"]
    ELSE [raised |-> TRUE,  value |-> NoText]

\* Variant: parse_date without its try/except.
parse_date_NoCatch(t) ==
    IF t = NoText \/ t = ""
    THEN [raised |-> FALSE, value |-> NoText]
    ELSE dateutil_parse(t)

\* Lines 13-23: None for a falsy text, None when the parser raises.
parse_date(t) ==
    IF t = NoText \/ t = ""
    THEN [raised |-> FALSE, value |-> NoText]
    ELSE IF dateutil_parse(t).raised
         THEN [raised |-> FALSE, value |-> NoText]
         ELSE dateutil_parse(t)

\* Line 202: parsed_date = parse_date(date_text) if date_text else None
ParsedDate(b) ==
    IF DateTextOf(b) = NoText \/ DateTextOf(b) = ""
    THEN [raised |-> FALSE, value |-> NoText]
    ELSE parse_date(DateTextOf(b))

\* Lines 196-219: the record built from one div.review block at clock t.
ExtractReview(b, t) ==
    [review_id   |-> b,
     date_raw    |-> DateTextOf(b),
     date_parsed |-> ParsedDate(b).value,
     stars       |-> StarsOf(b),
     text        |-> TextOf(b),
     scraped_at  |-> t]

\* Lines 195-223: append one record per block, in document order, and leave
\* the loop as soon as a truthy max_reviews is reached.
\* An exception raised while a block is processed ends the loop at once.
RECURSIVE ReviewLoop(_, _, _, _)
ReviewLoop(bs, acc, m, t) ==
    IF bs = << >>
    THEN [raised |-> FALSE, recs |-> acc]
    ELSE IF ParsedDate(Head(bs)).raised
         THEN [raised |-> TRUE, recs |-> acc]
         ELSE LET a == Append(acc, ExtractReview(Head(bs), t))
              IN  IF Truthy(m) /\ Len(a) >= m
                  THEN [raised |-> FALSE, recs |-> a]
                  ELSE ReviewLoop(Tail(bs), a, m, t)

\* Line 228: reviews if not max_reviews else reviews[:max_reviews]
Slice(rs, m) == IF ~Truthy(m) THEN rs ELSE SubSeq(rs, 1, Min(m, Len(rs)))

\* The "Load More" control is shown exactly while the feed has more to serve.
MoreToLoad == Len(doc) < total

R_Chrome     == NewSession("reviews", "r_chrome", "r_get")
R_ChromeFail == NewSessionFail("reviews", "r_chrome")

\* driver.get(url); time.sleep(2)
R_Get ==
    /\ pc = "r_get"
    /\ \E n \in 0..MaxN, n0 \in 0..MaxN :
          /\ n0 <= n
          /\ total' = n
          /\ doc' = Nodes(n0)
    /\ dateShift' \in IF Rich THEN 0..3 ELSE {0}
    /\ pc' = "r_scroll"
    /\ UNCHANGED << buttonCycle, settled, monotone, grew, hrefShift, now, cancelRequested, callVars, status, prodVars, ret, csv, sessVars, exc, height,
                    last_height, new_height, firstEqual, scrolls, clicks,
                    findResult, displayed, clickState, preClickCount, clickCycle, faults,
                    cycleOfFault, snapshots, soup, soupAt, records >>

\* window.scrollTo(0, scrollHeight); time.sleep(2): a new cycle begins
R_Scroll ==
    /\ pc = "r_scroll"
    /\ scrolls' = scrolls + 1
    /\ findResult' = "none"
    /\ displayed' = "none"
    /\ pc' = "r_find"
    /\ UNCHANGED << buttonCycle, settled, monotone, grew, hrefShift, now, dateShift, cancelRequested, callVars, status, prodVars, ret, csv, sessVars, exc, total,
                    doc, height, last_height, new_height, firstEqual, clicks,
                    clickState, preClickCount, clickCycle, faults, cycleOfFault, snapshots,
                    soup, soupAt, records >>

\* Variant: the except clause does not leave the loop (pass, not break).
R_Find_NoBreak ==
    /\ pc = "r_find"
    /\ \E r \in {"Found", "NotFound", "Error"} :
          /\ r = "NotFound" => ~MoreToLoad
          /\ findResult' = r
          /\ buttonCycle' = IF r = "Found" THEN scrolls ELSE buttonCycle
          /\ pc' = IF r = "Found" THEN "r_displayed" ELSE "r_ceiling"
          /\ faults' = IF r = "Error" THEN faults + 1 ELSE faults
          /\ cycleOfFault' = IF r = "Error" /\ faults = 0 THEN scrolls
                             ELSE cycleOfFault
    /\ UNCHANGED << settled, monotone, grew, hrefShift, now, dateShift, cancelRequested, callVars, status, prodVars, ret, csv, sessVars, exc, total,
                    doc, height, last_height, new_height, firstEqual, scrolls,
                    clicks, displayed, clickState, preClickCount, clickCycle,
                    snapshots, soup, soupAt, records >>

\* load_more_button = driver.find_element(By.ID, "page-load-more")
\* NoSuchElementException and any other exception reach the same except.
R_Find ==
    /\ pc = "r_find"
    /\ \E r \in {"Found", "NotFound", "Error"} :
          /\ r = "NotFound" => ~MoreToLoad
          /\ findResult' = r
          /\ buttonCycle' = IF r = "Found" THEN scrolls ELSE buttonCycle
          /\ pc' = IF r = "Found" THEN "r_displayed" ELSE "r_snapshot"
          /\ faults' = IF r = "Error" THEN faults + 1 ELSE faults
          /\ cycleOfFault' = IF r = "Error" /\ faults = 0 THEN scrolls
                             ELSE cycleOfFault
    /\ UNCHANGED << settled, monotone, grew, hrefShift, now, dateShift, cancelRequested, callVars, status, prodVars, ret, csv, sessVars, exc, total,
                    doc, height, last_height, new_height, firstEqual, scrolls,
                    clicks, displayed, clickState, preClickCount, clickCycle, snapshots,
                    soup, soupAt, records >>

\* if load_more_button.is_displayed(): ... else: break
R_Displayed ==
    /\ pc = "r_displayed"
    /\ \E r \in {"yes", "no", "Error"} :
          /\ r = "yes" => MoreToLoad
          /\ r = "no" => ~MoreToLoad
          /\ displayed' = r
          /\ pc' = IF r = "yes" THEN "r_click" ELSE "r_snapshot"
          /\ faults' = IF r = "Error" THEN faults + 1 ELSE faults
          /\ cycleOfFault' = IF r = "Error" /\ faults = 0 THEN scrolls
                             ELSE cycleOfFault
    /\ UNCHANGED << buttonCycle, settled, monotone, grew, hrefShift, now, dateShift, cancelRequested, callVars, status, prodVars, ret, csv, sessVars, exc, total,
                    doc, height, last_height, new_height, firstEqual, scrolls,
                    clicks, findResult, clickState, preClickCount, clickCycle, snapshots,
                    soup, soupAt, records >>

\* Variant: the two sleeps after the click are left out.
R_ClickOk_NoSettle ==
    /\ pc = "r_click"
    /\ clicks' = clicks + 1
    /\ preClickCount' = Len(doc)
    /\ clickCycle' = scrolls
    /\ clickState' = "ok"
    /\ settled' = FALSE
    /\ \E b \in 1..(total - Len(doc)) : doc' = Nodes(Len(doc) + b)
    /\ pc' = "r_ceiling"
    /\ UNCHANGED << buttonCycle, monotone, grew, hrefShift, now, dateShift, cancelRequested, callVars, status, prodVars, ret, csv, sessVars, exc, total,
                    height, last_height, new_height, firstEqual, scrolls,
                    findResult, displayed, faults, cycleOfFault, snapshots,
                    soup, soupAt, records >>

\* load_more_button.click(): the click lands and the page starts to append
\* the next batch
R_ClickOk ==
    /\ pc = "r_click"
    /\ clicks' = clicks + 1
    /\ preClickCount' = Len(doc)
    /\ clickCycle' = scrolls
    /\ clickState' = "ok"
    /\ settled' = FALSE
    /\ \E b \in 1..(total - Len(doc)) : doc' = Nodes(Len(doc) + b)
    /\ pc' = "r_settle"
    /\ UNCHANGED << buttonCycle, monotone, grew, hrefShift, now, dateShift, cancelRequested, callVars, status, prodVars, ret, csv, sessVars, exc, total,
                    height, last_height, new_height, firstEqual, scrolls,
                    findResult, displayed, faults, cycleOfFault, snapshots,
                    soup, soupAt, records >>

\* time.sleep(3); time.sleep(2) (lines 170-173)
R_Settle ==
    /\ pc = "r_settle"
    /\ settled' = TRUE
    /\ pc' = "r_ceiling"
    /\ UNCHANGED << buttonCycle, monotone, grew, hrefShift, now, dateShift, cancelRequested, callVars, status, prodVars, ret, csv, sessVars, dynVars >>

\* Variant: no except clause around the click; the exception leaves the
\* function through the finally block.
R_ClickFail_Propagate ==
    /\ pc = "r_click"
    /\ clicks' = clicks + 1
    /\ preClickCount' = Len(doc)
    /\ clickCycle' = scrolls
    /\ clickState' = "failed"
    /\ faults' = faults + 1
    /\ cycleOfFault' = IF faults = 0 THEN scrolls ELSE cycleOfFault
    /\ exc' = TRUE
    /\ pc' = "r_quit"
    /\ UNCHANGED << buttonCycle, settled, monotone, grew, hrefShift, now, dateShift, cancelRequested, callVars, status, prodVars, ret, csv, sessVars, total,
                    doc, height, last_height, new_height, firstEqual, scrolls,
                    findResult, displayed, snapshots, soup, soupAt, records >>

\* click() raises (stale / intercepted control): except Exception ... break
R_ClickFail ==
    /\ pc = "r_click"
    /\ clicks' = clicks + 1
    /\ preClickCount' = Len(doc)
    /\ clickCycle' = scrolls
    /\ clickState' = "failed"
    /\ faults' = faults + 1
    /\ cycleOfFault' = IF faults = 0 THEN scrolls ELSE cycleOfFault
    /\ pc' = "r_snapshot"
    /\ UNCHANGED << buttonCycle, settled, monotone, grew, hrefShift, now, dateShift, cancelRequested, callVars, status, prodVars, ret, csv, sessVars, exc, total,
                    doc, height, last_height, new_height, firstEqual, scrolls,
                    findResult, displayed, snapshots, soup, soupAt, records >>

\* Variant: every cycle reads page_source and extracts what is there so far.
R_Ceiling_Incremental ==
    /\ pc = "r_ceiling"
    /\ soup' = doc
    /\ soupAt' = << scrolls, clicks >>
    /\ snapshots' = snapshots + 1
    /\ records' = ReviewLoop(doc, records, max_reviews, now).recs
    /\ pc' = IF Truthy(max_reviews) /\ Len(doc) >= max_reviews
             THEN "r_snapshot"
             ELSE "r_scroll"
    /\ UNCHANGED << buttonCycle, settled, monotone, grew, hrefShift, now, dateShift, cancelRequested, callVars, status, prodVars, ret, csv, sessVars, exc, total,
                    doc, height, last_height, new_height, firstEqual, scrolls,
                    clicks, findResult, displayed, clickState, preClickCount,
                    clickCycle, faults, cycleOfFault >>

\* if max_reviews: current_reviews = driver.find_elements(...)
\*                 if len(current_reviews) >= max_reviews: break
R_Ceiling ==
    /\ pc = "r_ceiling"
    /\ pc' = IF Truthy(max_reviews) /\ Len(doc) >= max_reviews
             THEN "r_snapshot"
             ELSE "r_scroll"
    /\ UNCHANGED << buttonCycle, settled, monotone, grew, hrefShift, now, dateShift, cancelRequested, callVars, status, prodVars, ret, csv, sessVars, dynVars >>

R_Snapshot == Snapshot("r_snapshot", "r_extract")

\* for block in review_blocks: reviews.append({...}); if ...: break
R_Extract ==
    /\ pc = "r_extract"
    /\ \E t \in ClockReadings :
          /\ now' = t
          /\ records' = ReviewLoop(soup, records, max_reviews, t).recs
          /\ exc' = ReviewLoop(soup, records, max_reviews, t).raised
    /\ pc' = "r_quit"
    /\ UNCHANGED << buttonCycle, settled, monotone, grew, hrefShift, dateShift, cancelRequested, callVars, status, prodVars, ret, csv, sessVars, total,
                    doc, height, last_height, new_height, firstEqual, scrolls,
                    clicks, findResult, displayed, clickState, preClickCount, clickCycle,
                    faults, cycleOfFault, snapshots, soup, soupAt >>

\* errors outside the inner try: get, scrollTo, find_elements, page_source
R_Raise ==
    \/ DriverRaise("r_get", "r_quit")
    \/ DriverRaise("r_scroll", "r_quit")
    \/ (Truthy(max_reviews) /\ DriverRaise("r_ceiling", "r_quit"))
    \/ DriverRaise("r_snapshot", "r_quit")

R_Quit   == Quit("reviews", "r_quit", "r_return")
R_Return == Return("reviews", "r_return", Slice(records, max_reviews))

\* ------------------------------------------------------------ environment
\* Positions inside the two while-loops (lines 90-105 and 156-187).
LoopLabels == {"t_scroll", "t_height",
               "r_scroll", "r_find", "r_displayed", "r_click", "r_settle",
               "r_ceiling"}

\* A deadline passes, or the caller asks for the run to stop, while a loop is
\* running.  Neither function takes a cancellation argument or reads one.
CancelRequest ==
    /\ Rich
    /\ pc \in LoopLabels
    /\ ~cancelRequested
    /\ cancelRequested' = TRUE
    /\ UNCHANGED << buttonCycle, settled, monotone, grew, hrefShift, now, dateShift, pc, status, callVars, prodVars, ret, csv, sessVars,
                    dynVars >>

Next ==
    \/ P_Enter \/ P_For \/ P_GetOk \/ P_GetFail \/ P_Blocks \/ P_Return
    \/ T_Chrome \/ T_ChromeFail \/ T_Get \/ T_Height0 \/ T_Scroll
    \/ T_Compare \/ T_Snapshot \/ T_Extract \/ T_Raise \/ T_Quit \/ T_Return
    \/ R_Chrome \/ R_ChromeFail \/ R_Get \/ R_Scroll \/ R_Find \/ R_Displayed
    \/ R_ClickOk \/ R_Settle \/ R_ClickFail \/ R_Ceiling \/ R_Snapshot \/ R_Extract
    \/ R_Raise \/ R_Quit \/ R_Return
    \/ Propagate
    \/ Main
    \/ CancelRequest

Spec == Init /\ [][Next]_vars

\* ------------------------------------------- the record extraction, twice
\* The extraction code of each function (lines 46-66, 113-131, 195-228) run
\* on a parsed document at clock reading t.
Extraction(f, t) ==
    CASE f = "products"     -> ExtractProducts(blocks, page, t)
      [] f = "testimonials" -> ExtractTestimonials(soup, t)
      [] f = "reviews"      -> Slice(ReviewLoop(soup, << >>, max_reviews, t).recs,
                                     max_reviews)

\* Any parsed document of any of the three feeds, at any clock reading.
InitExtract ==
    /\ entry \in Feeds
    /\ feed = entry
    /\ pc = "x_first"
    /\ status = [f \in Feeds |-> IF f = entry THEN "running" ELSE "idle"]
    /\ max_pages = MainMaxPages
    /\ max_reviews \in IF entry = "reviews" THEN {NoneVal} \cup (0..MaxK)
                       ELSE {NoneVal}
    /\ page = 1
    /\ products = << >>
    /\ blocks \in IF entry = "products"
                  THEN {PageDoc(1, n) : n \in 0..MaxProducts}
                  ELSE {<< >>}
    /\ fetchLog = << >>
    /\ ret = [f \in Feeds |-> Nothing]
    /\ csv = [f \in Feeds |-> Nothing]
    /\ created = 0
    /\ live = {}
    /\ sessionOf = [f \in Feeds |-> 0]
    /\ quitCalls = [f \in Feeds |-> 0]
    /\ exc = FALSE
    /\ total = 0
    /\ doc = << >>
    /\ height = 0
    /\ last_height = 0
    /\ new_height = 0
    /\ firstEqual = FALSE
    /\ scrolls = 0
    /\ clicks = 0
    /\ findResult = "none"
    /\ displayed = "none"
    /\ clickState = "none"
    /\ preClickCount = 0
    /\ clickCycle = 0
    /\ faults = 0
    /\ cycleOfFault = 0
    /\ snapshots = 0
    /\ soup \in IF entry = "products" THEN {<< >>}
                ELSE {Nodes(n) : n \in 0..MaxN}
    /\ soupAt = << 0, 0 >>
    /\ records = << >>
    /\ cancelRequested = FALSE
    /\ dateShift \in IF entry = "reviews" THEN 0..3 ELSE {0}
    /\ now \in 0..MaxClock
    /\ hrefShift \in IF entry = "products" THEN 0..3 ELSE {0}
    /\ grew = 0
    /\ monotone = FALSE
    /\ settled = TRUE
    /\ buttonCycle = 0

\* First run of the extraction; its result is kept in records.
X_First ==
    /\ pc = "x_first"
    /\ \E t \in ClockReadings :
          /\ now' = t
          /\ records' = Extraction(feed, t)
    /\ pc' = "x_second"
    /\ UNCHANGED << buttonCycle, settled, monotone, grew, callVars, status, prodVars, ret, csv, sessVars, exc, total,
                    doc, height, last_height, new_height, firstEqual, scrolls,
                    clicks, findResult, displayed, clickState, preClickCount,
                    clickCycle, faults, cycleOfFault, snapshots, soup, soupAt,
                    cancelRequested, dateShift, hrefShift >>

\* Second run on the same document; its result is handed to the caller.
X_Second ==
    /\ pc = "x_second"
    /\ \E t \in ClockReadings :
          /\ now' = t
          /\ ret' = [ret EXCEPT ![feed] = Just(Extraction(feed, t))]
    /\ status' = [status EXCEPT ![feed] = "returned"]
    /\ pc' = "x_done"
    /\ UNCHANGED << buttonCycle, settled, monotone, grew, callVars, prodVars, csv, sessVars, dynVars,
                    cancelRequested, dateShift, hrefShift >>

NextExtract == X_First \/ X_Second

SpecExtract == InitExtract /\ [][NextExtract]_vars

\* ------------------------------------------- testimonials call, scheduled
\* The call runs alone; the interpreter executes each statement in turn, so
\* the statements of the function are taken under weak fairness.  Exceptions
\* raised by the driver are events of the environment and need not happen.
InitT == Init /\ entry = "testimonials"

T_Progress ==
    \/ T_Chrome \/ T_Get \/ T_Height0 \/ T_Scroll \/ T_Compare
    \/ T_Snapshot \/ T_Extract \/ T_Quit \/ T_Return
    \/ Propagate

NextT == T_Progress \/ T_ChromeFail \/ T_Raise

LiveSpec == InitT /\ [][NextT]_vars /\ WF_vars(T_Progress)

\* ================================================================ claims
Finished(f) == status[f] \in {"returned", "failed"}

\* The control-based loop has been left (lines 189 onwards, or the finally).
R_LoopLabels == {"r_scroll", "r_find", "r_displayed", "r_click", "r_settle",
                 "r_ceiling"}

\* C1: every call of a dynamic feed scrape that created a session, whether it
\* returned or failed with an error raised at any later driver step, has
\* called driver.quit() exactly once by the time it returns or fails (and
\* never more than once before that).
C1_QuitExactlyOnce ==
    \A f \in DynamicFeeds :
        /\ quitCalls[f] <= 1
        /\ (Finished(f) /\ sessionOf[f] # 0) => quitCalls[f] = 1

\* A testimonials run that failed on an error raised in cycle 2 and has quit.
C1_Witness ==
    /\ status["testimonials"] = "failed"
    /\ sessionOf["testimonials"] # 0
    /\ cycleOfFault = 2
    /\ feed = "testimonials"
    /\ quitCalls["testimonials"] = 1

\* C2: when the height read before the first scroll equals the height read
\* after it, the growth-based loop has ended after exactly one scroll action
\* and never scrolls again.
C2_EqualPairOneCycle ==
    (feed = "testimonials" /\ firstEqual)
        => (scrolls = 1 /\ pc \notin {"t_scroll", "t_height"})

C2_Witness ==
    /\ feed = "testimonials"
    /\ firstEqual
    /\ status["testimonials"] = "returned"
    /\ scrolls = 1

\* C3: in the control-based loop, once find_element reports NotFound or
\* is_displayed() is false in a cycle, the loop has been left, no click was
\* issued in that cycle, and no scroll or click is issued afterwards.
C3_NoControlMeansDone ==
    /\ [](  (feed = "reviews" /\ (findResult = "NotFound" \/ displayed = "no"))
              => (pc \notin R_LoopLabels /\ clickCycle < scrolls)  )
    /\ [][  (feed = "reviews" /\ (findResult = "NotFound" \/ displayed = "no"))
              => (scrolls' = scrolls /\ clicks' = clicks)  ]_vars

\* NotFound in the first cycle of an empty feed: returned without any click.
C3_Witness ==
    /\ status["reviews"] = "returned"
    /\ findResult = "NotFound"
    /\ total = 0
    /\ scrolls = 1
    /\ clicks = 0

\* C4 (as claimed): no click is issued while the number of records present
\* already meets or exceeds a configured ceiling.
C4_CeilingBeforeClick ==
    (feed = "reviews" /\ clicks > 0 /\ Truthy(max_reviews))
        => preClickCount < max_reviews

\* C5 (as claimed): with a ceiling K >= 1 and a feed holding N > K records,
\* a returning call returns exactly K records, which are the records of the
\* first K container nodes of the final document, in document order.
C5_CeilingTruncates ==
    (/\ status["reviews"] = "returned"
     /\ max_reviews >= 1
     /\ total > max_reviews)
        => /\ Len(ret["reviews"].val) = max_reviews
           /\ Len(doc) >= max_reviews
           /\ \A i \in 1..max_reviews :
                 ret["reviews"].val[i].review_id = doc[i]

\* The block and page number of each record of a list.
NamePage(rs) == [i \in 1..Len(rs) |-> [name |-> rs[i].name, page |-> rs[i].page]]

\* The records of the pages that precede the first empty page of a fetch log.
RECURSIVE RecordsBeforeEmpty(_, _)
RecordsBeforeEmpty(log, i) ==
    IF i > Len(log) \/ ~log[i].ok \/ log[i].n = 0
    THEN << >>
    ELSE [j \in 1..log[i].n |->
              [name |-> [pg |-> log[i].page, idx |-> j], page |-> log[i].page]]
         \o RecordsBeforeEmpty(log, i + 1)

\* C6: pages are requested in the order 1, 2, 3, ...; nothing is requested
\* after a page that yielded zero records; and the returned list is exactly
\* the records of the pages before the first empty page.
C6_StopsAtFirstEmptyPage ==
    /\ \A i \in 1..Len(fetchLog) :
          /\ fetchLog[i].page = i
          /\ i < Len(fetchLog) => (fetchLog[i].ok /\ fetchLog[i].n > 0)
    /\ status["products"] = "returned"
          => NamePage(ret["products"].val) = RecordsBeforeEmpty(fetchLog, 1)

\* Pages [1, 1, 0, ...] with max_pages = 6: two records, page 4 never fetched.
C6_Witness ==
    /\ status["products"] = "returned"
    /\ max_pages = MainMaxPages
    /\ Len(fetchLog) = 3
    /\ fetchLog[3].ok /\ fetchLog[3].n = 0
    /\ Len(ret["products"].val) = 2

\* C7: scrape_products never issues more than max_pages requests, and when
\* every page it fetched was non-empty it returns after fetching exactly the
\* pages 1..max_pages.
C7_AtMostMaxPages ==
    /\ Len(fetchLog) <= max_pages
    /\ (/\ status["products"] = "returned"
        /\ \A i \in 1..Len(fetchLog) : fetchLog[i].n > 0)
          => /\ Len(fetchLog) = max_pages
             /\ \A i \in 1..max_pages : fetchLog[i].page = i

\* scrape_products(max_pages=3) against three non-empty pages.
C7_Witness ==
    /\ status["products"] = "returned"
    /\ max_pages = 3
    /\ Len(fetchLog) = 3
    /\ \A i \in 1..Len(fetchLog) : fetchLog[i].n > 0

\* C8 (as claimed): a failed click is retried, and a second failure is fatal;
\* hence no run returns normally with a failed click as its last click.
C8_ClickRetriedThenFatal ==
    (feed = "reviews" /\ status["reviews"] = "returned")
        => clickState # "failed"

\* C9 (as claimed): when scrape_products fails on a page p > 1, the records
\* extracted from pages 1..p-1 are available to the caller (as the returned
\* value or as the written rows).
C9_PartialResultsPreserved ==
    (status["products"] = "failed" /\ page > 1)
        => \/ ret["products"] = Just(products)
           \/ csv["products"] = Just(products)

\* C10: a dynamic feed reads the document exactly once per returning call,
\* after its loop has ended: the snapshot is the final document, no scroll or
\* click follows it, and every returned record is the record of the snapshot
\* node at the same position.
C10_OneFinalExtraction ==
    /\ [](  /\ snapshots <= 1
            /\ \A f \in DynamicFeeds :
                 (feed = f /\ status[f] = "returned")
                    => /\ snapshots = 1
                       /\ soup = doc
                       /\ soupAt = << scrolls, clicks >>
                       /\ Len(ret[f].val) <= Len(soup)
                       /\ f = "testimonials"
                             => /\ Len(ret[f].val) = Len(soup)
                                /\ \A i \in 1..Len(soup) :
                                      ret[f].val[i].username
                                         = << "user", soup[i] >>
                       /\ f = "reviews"
                             => \A i \in 1..Len(ret[f].val) :
                                   ret[f].val[i].review_id = soup[i]  )
    /\ [][  snapshots >= 1 => (scrolls' <= scrolls /\ clicks' <= clicks)  ]_vars

C10_Witness ==
    /\ status["reviews"] = "returned"
    /\ feed = "reviews"
    /\ clicks >= 2
    /\ snapshots = 1
    /\ Len(ret["reviews"].val) >= 2

\* C11 (as claimed): once an external cancellation has been requested, no
\* further loop cycle is started (no further scroll is issued).
C11_CancelStopsCycles ==
    [][ cancelRequested => scrolls' <= scrolls ]_vars

\* C12: extracting a review whose date text is unparsable ("N/A"), empty or
\* absent never raises; the record is emitted with a null date_parsed and
\* with its id, raw date text, stars and text taken from the block, and the
\* blocks after it are extracted too (up to the ceiling).
C12_UnparsableDateIsNull ==
    /\ (feed = "reviews" /\ pc = "r_quit" /\ snapshots = 1) => ~exc
    /\ (feed = "reviews" /\ status["reviews"] = "returned")
         => /\ Len(ret["reviews"].val)
                 = IF Truthy(max_reviews)
                   THEN Min(max_reviews, Len(soup))
                   ELSE Len(soup)
            /\ \A i \in 1..Len(ret["reviews"].val) :
                  LET r == ret["reviews"].val[i]
                      b == soup[i]
                  IN  /\ r.review_id = b
                      /\ r.date_raw = DateTextOf(b)
                      /\ r.stars = StarsOf(b)
                      /\ r.text = TextOf(b)
                      /\ r.date_raw \in {"N/A", "", NoText}
                            => r.date_parsed = NoText
                      /\ r.date_raw = "2023-05-01"
                            => r.date_parsed = "2023-05-01T00:00:00"

\* A returned list in which a record with date text "N/A" is followed by a
\* record whose date was parsed.
C12_Witness ==
    /\ feed = "reviews"
    /\ status["reviews"] = "returned"
    /\ \E i, j \in 1..Len(ret["reviews"].val) :
          /\ i < j
          /\ ret["reviews"].val[i].date_raw = "N/A"
          /\ ret["reviews"].val[i].date_parsed = NoText
          /\ ret["reviews"].val[j].date_parsed # NoText

IsAbsolute(u) == u # << >> /\ Head(u) \in {"https://", "http://"}

\* C13 (as claimed): every URL stored in a product record is absolute; a
\* root-relative href is stored as the base URL followed by the href, and an
\* absolute href is stored unchanged.
C13_StoredUrlsAbsolute ==
    \A i \in 1..Len(products) :
        LET u == products[i].url
            h == HrefOf(products[i].name)
        IN  h # << >>
              => /\ IsAbsolute(u)
                 /\ Head(h) = "/" => u = BASE_URL \o h
                 /\ IsAbsolute(h) => u = h

\* C14 (as claimed): two runs of the record extraction on the same document
\* yield identical records.
C14_ExtractIdempotent ==
    pc = "x_done" => ret[feed].val = records

\* C15: at most one browser session is live at any moment; a session is
\* created only when none is live; the only session that can be live is the
\* one of the function now executing; a function that returned has closed its
\* session; the two dynamic feeds never share a session; and after a failed
\* testimonials run no reviews session is ever created.
C15_OneSessionAtATime ==
    /\ [](  /\ Cardinality(live) <= 1
            /\ live \subseteq {sessionOf[feed]}
            /\ \A f \in DynamicFeeds :
                  status[f] = "returned" => sessionOf[f] \notin live
            /\ sessionOf["reviews"] # 0
                  => sessionOf["reviews"] # sessionOf["testimonials"]
            /\ status["testimonials"] = "failed"
                  => sessionOf["reviews"] = 0  )
    /\ [][ created' > created => live = {} ]_vars

\* main() executing the reviews scrape in its own, second session.
C15_Witness ==
    /\ entry = "main"
    /\ feed = "reviews"
    /\ sessionOf["testimonials"] = 1
    /\ sessionOf["reviews"] = 2
    /\ live = {2}
    /\ clicks >= 1

\* C16: when the height read after the scroll exceeds the one read before
\* it, the growth-based loop goes on to another scroll and the height just
\* read becomes the before-height of that cycle; the loop is left for the
\* final extraction only when the two heights are equal.
C16_GrowthContinues ==
    /\ [][ (feed = "testimonials" /\ pc = "t_height"
               /\ pc' \in {"t_scroll", "t_snapshot"})
             => /\ height > last_height
                    => (pc' = "t_scroll" /\ last_height' = height)
                /\ pc' = "t_snapshot" => height = last_height ]_vars
    /\ []( (feed = "testimonials" /\ pc \in {"t_snapshot", "t_extract"})
             => new_height = last_height )

\* Two growing cycles followed by an equal pair: three scrolls.
C16_Witness ==
    /\ feed = "testimonials"
    /\ status["testimonials"] = "returned"
    /\ grew = 2
    /\ scrolls = 3
    /\ new_height = last_height

\* Positions of the reviews call at which the document is read: find_element,
\* find_elements, page_source and the extraction from it.
R_ReadLabels == {"r_find", "r_displayed", "r_ceiling", "r_snapshot",
                 "r_extract"}

InnerFault ==
    \/ findResult = "Error"
    \/ displayed = "Error"
    \/ clickState = "failed"

\* C18: an exception raised by find_element, is_displayed or click ends the
\* reviews loop the way a missing control does: control passes to the final
\* page_source read with no exception pending and the document untouched, no
\* further cycle runs, and a call that returns hands back the records of that
\* document.
C18_InnerFaultEndsLoop ==
    /\ [][ (feed = "reviews" /\ pc \in {"r_find", "r_displayed", "r_click"}
               /\ faults' > faults)
             => /\ pc' = "r_snapshot"
                /\ ~exc'
                /\ doc' = doc
                /\ status' = status ]_vars
    /\ []( (feed = "reviews" /\ InnerFault)
             => /\ pc \notin R_LoopLabels
                /\ faults = 1 => (~exc /\ status["reviews"] # "failed")
                /\ status["reviews"] = "returned"
                      => /\ snapshots = 1
                         /\ soup = doc
                         /\ ret["reviews"].val
                               = Slice(ReviewLoop(doc, << >>, max_reviews,
                                                  now).recs, max_reviews) )
    /\ [][ (feed = "reviews" /\ InnerFault) => scrolls' = scrolls ]_vars

\* The second click raised and the call still returned records.
C18_Witness ==
    /\ feed = "reviews"
    /\ status["reviews"] = "returned"
    /\ clickState = "failed"
    /\ clicks = 2
    /\ faults = 1
    /\ Len(ret["reviews"].val) >= 1

\* Positions inside the while-loop of the testimonials call (lines 90-105).
T_LoopLabels == {"t_scroll", "t_height"}

\* C19: on a page whose height never decreases and stays within a bound the
\* testimonials loop is eventually left; when it is left through its break
\* it has scrolled once more than the number of cycles in which the height
\* grew; nothing but the heights ends it: the model's scroll bound is never
\* what stops such a run, and a cycle whose two heights differ is always
\* followed by another scroll.
C19_MonotoneLoopTerminates ==
    /\ (feed = "testimonials" /\ monotone /\ pc \in T_LoopLabels)
          ~> (pc \notin T_LoopLabels)
    /\ []( (feed = "testimonials" /\ monotone)
             => /\ pc = "t_scroll" => (scrolls = grew /\ scrolls < ScrollCap)
                /\ (pc \in {"t_snapshot", "t_extract"}
                      \/ status["testimonials"] = "returned")
                      => scrolls = grew + 1 )
    /\ [][ (feed = "testimonials" /\ pc = "t_height"
               /\ height # last_height /\ pc' \notin {pc, "t_quit"})
             => (pc' = "t_scroll" /\ scrolls' = scrolls) ]_vars

\* The height grew twice and then stayed: three scrolls, and the call
\* returned.
C19_Witness ==
    /\ feed = "testimonials"
    /\ monotone
    /\ status["testimonials"] = "returned"
    /\ grew = MaxHeight
    /\ scrolls = MaxHeight + 1

\* C20: a call of scrape_reviews_infinite_scroll whose max_reviews is 0 or
\* None has no ceiling: the check after the click always goes on to the next
\* scroll, the loop is left only when the control is missing or hidden (or an
\* exception ended it), with the whole feed loaded when nothing was raised,
\* and the call returns every record of the document.
C20_ZeroCeilingIsNoCeiling ==
    /\ [][ (feed = "reviews" /\ max_reviews \in {0, NoneVal} /\ pc = "r_ceiling")
             => pc' \in {"r_ceiling", "r_scroll"} ]_vars
    /\ []( (feed = "reviews" /\ max_reviews \in {0, NoneVal})
             => /\ pc \in {"r_snapshot", "r_extract"}
                      => \/ findResult \in {"NotFound", "Error"}
                         \/ displayed \in {"no", "Error"}
                         \/ clickState = "failed"
                /\ (pc \in {"r_snapshot", "r_extract"} /\ faults = 0)
                      => Len(doc) = total
                /\ status["reviews"] = "returned"
                      => /\ ret["reviews"].val = records
                         /\ Len(ret["reviews"].val) = Len(doc)
                         /\ \A i \in 1..Len(doc) :
                               ret["reviews"].val[i].review_id = doc[i]
                         /\ faults = 0
                               => Len(ret["reviews"].val) = total )

\* max_reviews = 0: the control was clicked twice and all reviews came back.
C20_Witness ==
    /\ feed = "reviews"
    /\ max_reviews = 0
    /\ status["reviews"] = "returned"
    /\ faults = 0
    /\ clicks >= 2
    /\ total >= 3
    /\ Len(ret["reviews"].val) = total
====
